---------------------------- MODULE Spec2Model ----------------------------
(***************************************************************************)
(* protsdb: the write-ahead log (package wal) and the in-memory head block *)
(* (package head) that logs to it.                                         *)
(*                                                                         *)
(* The WAL is src/head/head.go lines 131-457.  The head block that owns a  *)
(* WAL is the listing in src/README.md lines 20-181; its chunk and bounds  *)
(* code is the same as src/head/head.go lines 1-129.                       *)
(*                                                                         *)
(* Callers are goroutines (Threads).  A call is a sequence of steps; a     *)
(* step that takes a sync.Mutex is enabled only while the mutex is free    *)
(* (Go's mutex is not reentrant).  Code that runs with a mutex held and    *)
(* touches only what that mutex guards is one step.  The head-wide         *)
(* minTime/maxTime are read and written under the per-series lock only,    *)
(* so each read and each write of them is a step of its own.               *)
(***************************************************************************)
EXTENDS Integers, Sequences, FiniteSets, TLC

\* ------------------------------------------------------------- bounds
\* Calls made in a run of concurrent goroutines (Spec).
MaxOps == 2
\* Calls made in a run of one goroutine (SpecSeq).
MaxSeqOps == 3
\* Calls made in a run on the WAL alone (SpecClean).
MaxCleanOps == 3
\* Number of IO failures (open, write, sync, remove) injected in a run.
MaxFaults == 1
\* Options.ChunkSize: samples per chunk.
ChunkSize == 2
\* Options.SegmentSize in bytes.
SegmentSize == 30
Threads == {1, 2}
\* No goroutine: the value of a free mutex.
NoThread == 0

\* ---------------------------------------------------------- constants
SegmentActive == "active"
SegmentSealed == "sealed"
SegmentFlushed == "flushed"

RecordSeries == 1
RecordSamples == 2
RecordCheckpoint == 3

\* type(1) + length(8) + crc32(4)
HeaderLen == 13
\* 8-byte timestamp + 8-byte float bits
SampleLen == 16

\* The sentinels of NewHead.  TLC's integers are 32 bits wide; the model
\* only compares timestamps with them, so the extreme values of TLC's
\* range stand for those of int64.
MaxInt64 == 2147483647
MinInt64 == -2147483647 - 1

\* ------------------------------------------------------------- inputs
\* labels.Labels is a slice of (Name, Value) pairs (the WAL ranges over it
\* and takes its len).  LsetAB and LsetBA hold the same pairs in different
\* order.
LsetA == << <<"a", "1">> >>
LsetAB == << <<"a", "1">>, <<"b", "2">> >>
LsetBA == << <<"b", "2">>, <<"a", "1">> >>
LabelSets == {LsetA, LsetAB, LsetBA}

\* prompb.Sample: (Timestamp, Value).
Samples == {[t |-> 1, v |-> 10], [t |-> 2, v |-> 20], [t |-> 3, v |-> 30]}

NoLset == << >>
NoSample == [t |-> 0, v |-> 0]

\* ------------------------------------------------------ pure functions
\* len(binary.AppendVarint(nil, n)) for 0 <= n < 8192 (zig-zag encoding).
VarintLen(n) == IF n < 64 THEN 1 ELSE 2

RECURSIVE EncodeLabelsLen(_)
\* Bytes of the label part of a payload: the pairs, each name and value
\* prefixed by its varint length.  The count prefix is added by the caller.
EncodeLabelsLen(lset) ==
    IF lset = << >> THEN 0
    ELSE LET l == Head(lset)
         IN VarintLen(Len(l[1])) + Len(l[1]) + VarintLen(Len(l[2])) + Len(l[2])
            + EncodeLabelsLen(Tail(lset))

\* len(buf) in LogSeries.
LogSeriesLen(lset) == VarintLen(Len(lset)) + EncodeLabelsLen(lset)

\* len(buf) in LogSample.
LogSampleLen(lset) == VarintLen(Len(lset)) + EncodeLabelsLen(lset) + SampleLen

\* A record as handed to write: its type and what its payload encodes.
SeriesRecord(lset) == [typ |-> RecordSeries, lset |-> lset, sample |-> NoSample]
SampleRecord(lset, s) == [typ |-> RecordSamples, lset |-> lset, sample |-> s]
CheckpointRecord == [typ |-> RecordCheckpoint, lset |-> NoLset, sample |-> NoSample]

\* len(data) in write.
PayloadLen(rec) ==
    CASE rec.typ = RecordSeries -> LogSeriesLen(rec.lset)
      [] rec.typ = RecordSamples -> LogSampleLen(rec.lset)
      [] OTHER -> 0

RECURSIVE SortInts(_)
\* sort.Ints of a slice holding the elements of S once each.
SortInts(S) ==
    IF S = {} THEN << >>
    ELSE LET m == CHOOSE x \in S : \A y \in S : x <= y
         IN <<m>> \o SortInts(S \ {m})

\* ------------------------------------------------------------- state
VARIABLES
    \* goroutines
    pc,             \* where each goroutine is in its call
    arg,            \* the call's arguments: label set and sample
    sref,           \* the reference of the series getOrCreate returned
    \* WAL
    wmtx,           \* WAL.mtx: the goroutine holding it, or NoThread
    current,        \* WAL.current: the ID of the segment it points to
    segments,       \* WAL.segments: ID -> segment
    lastCheckpoint, \* WAL.lastCheckpoint: number of completed checkpoints
    files,          \* the WAL directory: ID -> file segment-<ID>
    \* Head
    hmtx,           \* Head.mtx: the goroutine holding it, or NoThread
    series,         \* Head.series: ref -> memSeries
    lastRef,        \* Head.lastRef
    minTime,        \* Head.minTime
    maxTime,        \* Head.maxTime
    slock,          \* memSeries.RWMutex of each series: holder or NoThread
    \* run
    ops,            \* calls the run may still make
    faults,         \* IO failures injected so far
    startDir,       \* the directory New was run on
    \* history
    synced,         \* sample records whose write returned nil
    accepted,       \* the (label set, sample) of each Append that returned nil
    failedCreate,   \* refs whose LogSeries failed in getOrCreate
    overlap,        \* some call started while another was running
    dropped,        \* ref -> the chunks Append replaced, oldest first
    lastOp          \* the last completed operation on the WAL; "clean_ok_again"
                    \* when it is a successful Clean right after another

thvars == <<pc, arg, sref>>
walvars == <<wmtx, current, segments, lastCheckpoint, files>>
headvars == <<hmtx, series, lastRef, minTime, maxTime, slock>>
runvars == <<ops, faults, startDir>>
histvars == <<synced, accepted, failedCreate, overlap, dropped, lastOp>>
vars == <<thvars, walvars, headvars, runvars, histvars>>

\* ---------------------------------------------------------------- WAL
\* The zero value of *segment.
NoSegment == -1

\* An empty file.
EmptyFile == [size |-> 0, writes |-> << >>]

\* (*os.File).Write of n bytes at handle position at: the file keeps what
\* was written where, and grows when the write ends past its size.
FileWrite(f, at, n, rec, part) ==
    IF n = 0 THEN f
    ELSE [size |-> IF at + n > f.size THEN at + n ELSE f.size,
          writes |-> Append(f.writes, [at |-> at, len |-> n, rec |-> rec, part |-> part])]

\* A WAL as the pure operators below take and return it.
TheWAL == [current |-> current, segments |-> segments, files |-> files]

\* Insert or overwrite segments[id].
PutSegment(segs, id, seg) ==
    [i \in DOMAIN segs \cup {id} |-> IF i = id THEN seg ELSE segs[i]]

RECURSIVE loadSegments(_, _)
\* loadSegments over the directory listing ids (segment files only, in
\* os.ReadDir's order): each file is opened at position 0 with its size as
\* offset; the highest ID seen so far is current and active.
loadSegments(w, ids) ==
    IF ids = << >> THEN w
    ELSE LET id == Head(ids)
             isCur == w.current = NoSegment \/ id > w.current
             seg == [id |-> id, offset |-> w.files[id].size, pos |-> 0, open |-> TRUE,
                     state |-> IF isCur THEN SegmentActive ELSE SegmentSealed]
             sealedOld == IF isCur /\ w.current # NoSegment
                          THEN [w.segments EXCEPT ![w.current].state = SegmentSealed]
                          ELSE w.segments
         IN loadSegments([current |-> IF isCur THEN id ELSE w.current,
                          segments |-> PutSegment(sealedOld, id, seg),
                          files |-> w.files],
                         Tail(ids))

\* newSegment without "w.current.state = SegmentSealed".
newSegmentNoSeal(w, id) ==
    LET seg == [id |-> id, offset |-> 0, pos |-> 0, open |-> TRUE, state |-> SegmentActive]
    IN [current |-> id,
        segments |-> PutSegment(w.segments, id, seg),
        files |-> IF id \in DOMAIN w.files THEN w.files
                  ELSE [i \in DOMAIN w.files \cup {id} |-> IF i = id THEN EmptyFile ELSE w.files[i]]]

\* newSegment(id) when os.OpenFile succeeds: O_CREATE without O_TRUNC keeps
\* an existing file; the handle starts at position 0, the offset at 0.
newSegment(w, id) ==
    LET seg == [id |-> id, offset |-> 0, pos |-> 0, open |-> TRUE, state |-> SegmentActive]
        sealedOld == IF w.current # NoSegment
                     THEN [w.segments EXCEPT ![w.current].state = SegmentSealed]
                     ELSE w.segments
    IN [current |-> id,
        segments |-> PutSegment(sealedOld, id, seg),
        files |-> IF id \in DOMAIN w.files THEN w.files
                  ELSE [i \in DOMAIN w.files \cup {id} |-> IF i = id THEN EmptyFile ELSE w.files[i]]]

\* New on a directory holding dir: load, then create segment 0 if none.
New(dir) ==
    LET w == loadSegments([current |-> NoSegment, segments |-> << >>, files |-> dir],
                          SortInts(DOMAIN dir))
    IN IF DOMAIN w.segments = {} THEN newSegment(w, 0) ELSE w

\* The IO calls of write that can fail.
WriteFaults == {"open", "header", "data", "sync"}
NoFault == "none"

\* w.current.file.Write(b) and w.current.offset += n for the n bytes of part.
writePart(w, n, rec, part) ==
    LET seg == w.segments[w.current]
    IN [w EXCEPT !.files[w.current] = FileWrite(@, seg.pos, n, rec, part),
                 !.segments[w.current].pos = @ + n,
                 !.segments[w.current].offset = @ + n]

\* A capacity check that lets a segment grow a record beyond its size.
needRotateLate(w) == w.segments[w.current].offset >= SegmentSize + HeaderLen + SampleLen

\* Whether write rotates: the capacity check before the write.
needRotate(w) == w.segments[w.current].offset >= SegmentSize

\* write(typ, data) between Lock and Unlock, with the IO call fault
\* failing (NoFault: none fails).  A write to a closed file fails.
\* Returns the WAL it leaves and whether it returned an error.
write(w, rec, fault) ==
    LET rotated == IF needRotate(w) /\ fault # "open" THEN newSegment(w, w.current + 1) ELSE w
        headerOk == fault # "header" /\ rotated.segments[rotated.current].open
        w1 == writePart(rotated, HeaderLen, rec, "header")
        w2 == writePart(w1, PayloadLen(rec), rec, "payload")
    IN CASE needRotate(w) /\ fault = "open" -> [w |-> w, err |-> TRUE]
         [] ~headerOk -> [w |-> rotated, err |-> TRUE]
         [] fault = "data" -> [w |-> w1, err |-> TRUE]
         [] fault = "sync" -> [w |-> w2, err |-> TRUE]
         [] OTHER -> [w |-> w2, err |-> FALSE]

\* Checkpoint after its write returned nil: every segment below the
\* current one becomes flushed.
checkpointMark(w) ==
    [w EXCEPT !.segments = [i \in DOMAIN w.segments |->
        IF w.segments[i].id < w.segments[w.current].id
        THEN [w.segments[i] EXCEPT !.state = SegmentFlushed]
        ELSE w.segments[i]]]

\* Clean without "keep at least one old segment": every flushed ID.
toDeleteAll(w) ==
    SortInts({i \in DOMAIN w.segments : w.segments[i].state = SegmentFlushed})

\* The IDs Clean sets out to delete: the flushed ones in ascending order,
\* without the last.
toDelete(w) ==
    LET flushed == SortInts({i \in DOMAIN w.segments : w.segments[i].state = SegmentFlushed})
    IN IF Len(flushed) > 0 THEN SubSeq(flushed, 1, Len(flushed) - 1) ELSE flushed

\* The deletion loop returning nil from inside the loop, after its first
\* deletion.
cleanLoopOnce(w, del, i, failAt) ==
    IF i > Len(del) THEN [w |-> w, err |-> FALSE]
    ELSE LET id == del[i]
             closed == [w EXCEPT !.segments[id].open = FALSE]
         IN IF i = failAt \/ id \notin DOMAIN w.files THEN [w |-> closed, err |-> TRUE]
            ELSE [w |-> [current |-> w.current,
                         segments |-> [j \in DOMAIN w.segments \ {id} |-> closed.segments[j]],
                         files |-> [j \in DOMAIN w.files \ {id} |-> w.files[j]]],
                  err |-> FALSE]

RECURSIVE cleanLoop(_, _, _, _)
\* The deletion loop of Clean from index i of del on, with os.Remove
\* failing at index failAt (0: never) and for a file that is not there.
\* Each file is closed, removed, and its segment deleted from the table; a
\* failed Remove returns at once.
cleanLoop(w, del, i, failAt) ==
    IF i > Len(del) THEN [w |-> w, err |-> FALSE]
    ELSE LET id == del[i]
             closed == [w EXCEPT !.segments[id].open = FALSE]
         IN IF i = failAt \/ id \notin DOMAIN w.files THEN [w |-> closed, err |-> TRUE]
            ELSE cleanLoop([current |-> w.current,
                            segments |-> [j \in DOMAIN w.segments \ {id} |-> closed.segments[j]],
                            files |-> [j \in DOMAIN w.files \ {id} |-> w.files[j]]],
                           del, i + 1, failAt)

\* Clean between Lock and Unlock.
Clean(w, failAt) == cleanLoop(w, toDelete(w), 1, failAt)

\* --------------------------------------------------------------- Head
\* labels.Equal on label slices: same length and the same pair at every
\* index.
LabelsEqual(ls, o) ==
    /\ Len(ls) = Len(o)
    /\ \A i \in 1..Len(ls) : ls[i] = o[i]

\* &memChunk{}: the chunk getOrCreate gives a new series.
ZeroChunk == [minTime |-> 0, maxTime |-> 0, samples |-> << >>]

\* The chunk Append swaps in when the current one is full.
FreshChunk(ts) == [minTime |-> ts, maxTime |-> ts, samples |-> << >>]

\* Whether Append replaces the chunk of s.
chunkFull(s) == Len(s.chunk.samples) >= ChunkSize

\* The series after Append's chunk code: a full chunk is replaced, the
\* sample is appended and maxTime set to its timestamp.
appendSample(s, sample) ==
    LET c == IF chunkFull(s) THEN FreshChunk(sample.t) ELSE s.chunk
    IN [s EXCEPT !.chunk = [c EXCEPT !.samples = Append(@, sample),
                                     !.maxTime = sample.t]]

\* The memSeries getOrCreate builds.
NewSeries(ref, lset) == [ref |-> ref, lset |-> lset, chunk |-> ZeroChunk]

\* getOrCreate without its scan: no series is ever found.
MatchingNone(lset) == {}

\* The refs getOrCreate's scan matches.
Matching(lset) == {r \in DOMAIN series : LabelsEqual(series[r].lset, lset)}

\* The chunks reachable from the series: memSeries has the one field.
SeriesChunks(r) == <<series[r].chunk>>

\* The nil *memSeries (no series has ref 0).
NilSeries == [ref |-> 0, lset |-> NoLset, chunk |-> ZeroChunk]

\* Series(ref): the map entry, or nil.
SeriesLookup(ref) == IF ref \in DOMAIN series THEN series[ref] ELSE NilSeries

\* ------------------------------------------------------------ actions
Idle(t) == pc[t] = "idle"

\* A goroutine makes a call: the bookkeeping all calls share.
Call(t, to, lset, sample) ==
    /\ Idle(t)
    \* idle goroutines are alike: the lowest one takes the call
    /\ \A u \in Threads : u < t => ~Idle(u)
    /\ ops > 0
    /\ ops' = ops - 1
    /\ pc' = [pc EXCEPT ![t] = to]
    /\ arg' = [arg EXCEPT ![t] = [lset |-> lset, sample |-> sample]]
    /\ UNCHANGED sref
    /\ overlap' = (overlap \/ \E u \in Threads \ {t} : ~Idle(u))
    /\ UNCHANGED <<walvars, headvars, faults, startDir, synced, accepted, failedCreate,
                   dropped, lastOp>>

NoArg == [lset |-> NoLset, sample |-> NoSample]

\* The call returns: the goroutine is idle again and keeps nothing of it.
Return(t) ==
    /\ pc' = [pc EXCEPT ![t] = "idle"]
    /\ arg' = [arg EXCEPT ![t] = NoArg]
    /\ sref' = [sref EXCEPT ![t] = 0]

\* Head.Append(l, sample): it starts in LogSample, at write's Lock.
CallAppend(t) ==
    \E l \in LabelSets, s \in Samples : Call(t, "LogSample", l, s)

\* WAL.LogSample(l, sample) called on the WAL itself.
CallLogSample(t) ==
    \E l \in LabelSets : Call(t, "WalLogSample", l, [t |-> 1, v |-> 10])

\* WAL.Checkpoint(), at its Lock.
CallCheckpoint(t) == Call(t, "Checkpoint", NoLset, NoSample)

\* WAL.Clean(), at its Lock.
CallClean(t) == Call(t, "Clean", NoLset, NoSample)

\* WAL.Close() (Head.Close delegates to it), at its Lock.
CallClose(t) == Call(t, "Close", NoLset, NoSample)

\* Where a goroutine waiting in w.mtx.Lock() goes on once it has the mutex.
\* Checkpoint calls write with the mutex held: from its own Lock it goes
\* straight to the Lock of write.
AfterLock(p) ==
    CASE p = "LogSample" -> "LogSampleWrite"
      [] p = "WalLogSample" -> "WalLogSampleWrite"
      [] p = "LogSeries" -> "LogSeriesWrite"
      [] p = "Checkpoint" -> "CheckpointWrite"
      [] p = "CheckpointWrite" -> "CheckpointWriteBody"
      [] p = "Clean" -> "CleanBody"
      [] p = "Close" -> "CloseBody"
      [] OTHER -> p

LockWaits == {"LogSample", "WalLogSample", "LogSeries", "Checkpoint", "CheckpointWrite",
              "Clean", "Close"}

\* A Lock that does not wait for the mutex.
MutexAlwaysFree(t) == TRUE

\* w.mtx.Lock() in write, Checkpoint, Clean and Close: taken only when free.
MutexFree(t) == wmtx = NoThread

WalLock(t) ==
    /\ pc[t] \in LockWaits
    /\ MutexFree(t)
    /\ wmtx' = t
    /\ pc' = [pc EXCEPT ![t] = AfterLock(pc[t])]
    /\ UNCHANGED <<arg, sref, current, segments, lastCheckpoint, files,
                   headvars, runvars, histvars>>

\* The record the goroutine's write call was handed.
WriteRecord(t) ==
    CASE pc[t] \in {"LogSampleWrite", "WalLogSampleWrite"} -> SampleRecord(arg[t].lset, arg[t].sample)
      [] pc[t] = "LogSeriesWrite" -> SeriesRecord(arg[t].lset)
      [] OTHER -> CheckpointRecord

\* The faults a write can meet in this state: opening a new segment fails
\* only when the write rotates; a closed file fails by itself.
FaultsOf(w) ==
    {NoFault} \cup
    IF faults < MaxFaults
    THEN {f \in WriteFaults : /\ (f = "open" => needRotate(w))
                              /\ (f # "open" => (needRotate(w) \/ w.segments[w.current].open))}
    ELSE {}

\* Append with the error of LogSample dropped: it always goes on.
AfterLogSampleIgnoringErr(err) == "getOrCreate"

\* Append going on to memory when LogSample failed, returning otherwise.
AfterLogSampleInverted(err) == IF err THEN "getOrCreate" ELSE "idle"

\* Where Append goes on after LogSample returned err: on an error it
\* returns it, else it calls getOrCreate.
AfterLogSample(err) == IF err THEN "idle" ELSE "getOrCreate"

\* write from Lock to the deferred Unlock, and what the caller does with
\* its result up to the caller's next blocking point.
WriteBody(t) ==
    /\ pc[t] \in {"LogSampleWrite", "WalLogSampleWrite", "LogSeriesWrite", "CheckpointWriteBody"}
    /\ \E fault \in FaultsOf(TheWAL) :
        LET rec == WriteRecord(t)
            r == write(TheWAL, rec, fault)
            w == IF pc[t] = "CheckpointWriteBody" /\ ~r.err THEN checkpointMark(r.w) ELSE r.w
        IN /\ current' = w.current
           /\ segments' = w.segments
           /\ files' = w.files
           /\ wmtx' = NoThread
           /\ faults' = IF fault = NoFault THEN faults ELSE faults + 1
           /\ lastOp' = "write"
           /\ lastCheckpoint' = IF pc[t] = "CheckpointWriteBody" /\ ~r.err
                                THEN lastCheckpoint + 1 ELSE lastCheckpoint
           /\ synced' = IF rec.typ = RecordSamples /\ ~r.err THEN synced \cup {rec} ELSE synced
           /\ CASE pc[t] = "LogSampleWrite" /\ AfterLogSample(r.err) # "idle" ->
                    /\ pc' = [pc EXCEPT ![t] = AfterLogSample(r.err)]
                    /\ UNCHANGED <<arg, sref, hmtx, failedCreate>>
                [] pc[t] = "LogSampleWrite" /\ AfterLogSample(r.err) = "idle" ->
                    /\ Return(t)
                    /\ UNCHANGED <<hmtx, failedCreate>>
                [] pc[t] = "LogSeriesWrite" /\ ~r.err ->
                    \* getOrCreate's deferred h.mtx.Unlock()
                    /\ hmtx' = NoThread
                    /\ pc' = [pc EXCEPT ![t] = "SeriesLock"]
                    /\ UNCHANGED <<arg, sref, failedCreate>>
                [] pc[t] = "LogSeriesWrite" /\ r.err ->
                    /\ hmtx' = NoThread
                    /\ failedCreate' = failedCreate \cup {sref[t]}
                    /\ Return(t)
                [] OTHER ->
                    /\ Return(t)
                    /\ UNCHANGED <<hmtx, failedCreate>>
    /\ UNCHANGED <<series, lastRef, minTime, maxTime, slock, ops, startDir,
                   accepted, overlap, dropped>>

\* Clean from Lock to the deferred Unlock.  os.Remove may fail at any one
\* of the files it is called for.
CleanBody(t) ==
    /\ pc[t] = "CleanBody"
    /\ \E failAt \in 0..Len(toDelete(TheWAL)) :
        /\ failAt # 0 => faults < MaxFaults
        /\ LET r == Clean(TheWAL, failAt)
           IN /\ current' = r.w.current
              /\ segments' = r.w.segments
              /\ files' = r.w.files
              /\ faults' = IF failAt = 0 THEN faults ELSE faults + 1
              /\ lastOp' = CASE r.err -> "clean_err"
                              [] lastOp \in {"clean_ok", "clean_ok_again"} -> "clean_ok_again"
                              [] OTHER -> "clean_ok"
              /\ Return(t)
    /\ wmtx' = NoThread
    /\ UNCHANGED <<lastCheckpoint, headvars, ops, startDir, synced, accepted,
                   failedCreate, overlap, dropped>>

\* Close from Lock to the deferred Unlock: the current segment's file is
\* closed; closing a closed file returns an error.
CloseBody(t) ==
    /\ pc[t] = "CloseBody"
    /\ segments' = IF current # NoSegment
                   THEN [segments EXCEPT ![current].open = FALSE] ELSE segments
    /\ Return(t)
    /\ wmtx' = NoThread
    /\ lastOp' = "close"
    /\ UNCHANGED <<current, lastCheckpoint, files, headvars, runvars,
                   synced, accepted, failedCreate, overlap, dropped>>

\* What getOrCreate does to the map when no series matches: the next ref
\* is taken and the new series inserted.
insertSeries(m, ref, lset) ==
    [r \in DOMAIN m \cup {ref} |-> IF r = ref THEN NewSeries(ref, lset) ELSE m[r]]

\* getOrCreate from h.mtx.Lock() to its return (a series matches) or to the
\* LogSeries call it makes with h.mtx held (none matches).
GetOrCreate(t) ==
    /\ pc[t] = "getOrCreate"
    /\ hmtx = NoThread
    /\ IF Matching(arg[t].lset) # {}
       THEN /\ \E r \in Matching(arg[t].lset) : sref' = [sref EXCEPT ![t] = r]
            /\ pc' = [pc EXCEPT ![t] = "SeriesLock"]
            /\ UNCHANGED <<hmtx, series, lastRef, slock, dropped>>
       ELSE /\ lastRef' = lastRef + 1
            /\ series' = insertSeries(series, lastRef + 1, arg[t].lset)
            /\ slock' = [r \in DOMAIN series \cup {lastRef + 1} |->
                            IF r = lastRef + 1 THEN NoThread ELSE slock[r]]
            /\ dropped' = [r \in DOMAIN series \cup {lastRef + 1} |->
                            IF r = lastRef + 1 THEN << >> ELSE dropped[r]]
            /\ sref' = [sref EXCEPT ![t] = lastRef + 1]
            /\ hmtx' = t
            /\ pc' = [pc EXCEPT ![t] = "LogSeries"]
    /\ UNCHANGED <<arg, walvars, minTime, maxTime, runvars, synced, accepted,
                   failedCreate, overlap, lastOp>>

\* Append's chunk code and return, with the deferred s.Unlock().
FinishAppend(t) ==
    /\ series' = [series EXCEPT ![sref[t]] = appendSample(@, arg[t].sample)]
    /\ dropped' = IF chunkFull(series[sref[t]])
                  THEN [dropped EXCEPT ![sref[t]] = Append(@, series[sref[t]].chunk)]
                  ELSE dropped
    /\ slock' = [slock EXCEPT ![sref[t]] = NoThread]
    /\ accepted' = Append(accepted, [lset |-> arg[t].lset, sample |-> arg[t].sample])
    /\ Return(t)

\* s.Lock(), then the read of h.minTime in the first comparison.
SeriesLock(t) ==
    /\ pc[t] = "SeriesLock"
    /\ slock[sref[t]] = NoThread
    /\ slock' = [slock EXCEPT ![sref[t]] = t]
    /\ pc' = [pc EXCEPT ![t] = IF arg[t].sample.t < minTime THEN "MinWrite" ELSE "MaxRead"]
    /\ UNCHANGED <<arg, sref, walvars, hmtx, series, lastRef, minTime, maxTime,
                   runvars, histvars>>

\* h.minTime = sample.Timestamp
MinWrite(t) ==
    /\ pc[t] = "MinWrite"
    /\ minTime' = arg[t].sample.t
    /\ pc' = [pc EXCEPT ![t] = "MaxRead"]
    /\ UNCHANGED <<arg, sref, walvars, hmtx, series, lastRef, maxTime, slock,
                   runvars, histvars>>

\* The read of h.maxTime in the second comparison; when it needs no
\* write, the rest of Append.
MaxRead(t) ==
    /\ pc[t] = "MaxRead"
    /\ IF arg[t].sample.t > maxTime
       THEN /\ pc' = [pc EXCEPT ![t] = "MaxWrite"]
            /\ UNCHANGED <<arg, sref, series, slock, accepted, dropped>>
       ELSE FinishAppend(t)
    /\ UNCHANGED <<walvars, hmtx, lastRef, minTime, maxTime, runvars,
                   synced, failedCreate, overlap, lastOp>>

\* h.maxTime = sample.Timestamp, then the rest of Append.
MaxWrite(t) ==
    /\ pc[t] = "MaxWrite"
    /\ maxTime' = arg[t].sample.t
    /\ FinishAppend(t)
    /\ UNCHANGED <<walvars, hmtx, lastRef, minTime, runvars,
                   synced, failedCreate, overlap, lastOp>>

\* ------------------------------------------------------ specification
\* A file a previous run of the program left: the records appended in turn.
RECURSIVE PrevFile(_, _)
PrevFile(f, recs) ==
    IF recs = << >> THEN f
    ELSE LET rec == Head(recs)
             h == FileWrite(f, f.size, HeaderLen, rec, "header")
         IN PrevFile(FileWrite(h, h.size, PayloadLen(rec), rec, "payload"), Tail(recs))

OldSample == SampleRecord(LsetA, [t |-> 1, v |-> 10])

\* The directories New is run on: empty, and two segments an earlier run
\* left.
Dirs ==
    { << >>,
      [i \in {1, 2} |-> IF i = 1 THEN PrevFile(EmptyFile, <<OldSample>>)
                        ELSE PrevFile(EmptyFile, <<SeriesRecord(LsetA)>>)] }

\* NewHead, but for the WAL it opens.
InitHead ==
    /\ hmtx = NoThread
    /\ series = << >>
    /\ lastRef = 0
    /\ minTime = MaxInt64
    /\ maxTime = MinInt64
    /\ slock = << >>

InitRun(calls) ==
    /\ pc = [t \in Threads |-> "idle"]
    /\ arg = [t \in Threads |-> NoArg]
    /\ sref = [t \in Threads |-> 0]
    /\ ops = calls
    /\ faults = 0
    /\ synced = {}
    /\ accepted = << >>
    /\ failedCreate = {}
    /\ overlap = FALSE
    /\ dropped = << >>
    /\ lastOp = "none"

\* The WAL as New returns it.
InitWAL(dir, w) ==
    /\ startDir = dir
    /\ wmtx = NoThread
    /\ current = w.current
    /\ segments = w.segments
    /\ files = w.files
    /\ lastCheckpoint = 0

\* The state after NewHead returned without error.
Init ==
    /\ InitRun(MaxOps)
    /\ InitHead
    /\ \E dir \in Dirs : InitWAL(dir, New(dir))

Next ==
    \E t \in Threads :
        \/ CallAppend(t)
        \/ CallCheckpoint(t)
        \/ CallClean(t)
        \/ CallClose(t)
        \/ WalLock(t)
        \/ WriteBody(t)
        \/ CleanBody(t)
        \/ CloseBody(t)
        \/ GetOrCreate(t)
        \/ SeriesLock(t)
        \/ MinWrite(t)
        \/ MaxRead(t)
        \/ MaxWrite(t)

Spec == Init /\ [][Next]_vars

\* The steps of goroutine t.
ThreadStep(t) ==
    \/ CallAppend(t) \/ CallCheckpoint(t) \/ CallClean(t) \/ CallClose(t)
    \/ WalLock(t) \/ WriteBody(t) \/ CleanBody(t) \/ CloseBody(t)
    \/ GetOrCreate(t) \/ SeriesLock(t) \/ MinWrite(t) \/ MaxRead(t) \/ MaxWrite(t)

\* Spec with Go's scheduler: a goroutine that can take a step is not
\* left waiting forever.
FairSpec == Spec /\ \A t \in Threads : WF_vars(ThreadStep(t))

\* One goroutine calling Append, from the state after NewHead.
InitSeq ==
    /\ InitRun(MaxSeqOps)
    /\ InitHead
    /\ \E dir \in Dirs : InitWAL(dir, New(dir))

NextSeq ==
    \/ CallAppend(1)
    \/ WalLock(1)
    \/ WriteBody(1)
    \/ GetOrCreate(1)
    \/ SeriesLock(1)
    \/ MinWrite(1)
    \/ MaxRead(1)
    \/ MaxWrite(1)

SpecSeq == InitSeq /\ [][NextSeq]_vars

\* Clean as a function of the segment table.  The only code that makes a
\* segment flushed is the tail of Checkpoint, which marks every segment
\* below the current one; SpecClean starts Clean and write on the tables
\* that marking leaves, for a checkpoint taken when segment k was current
\* and the rotations since.
CleanDir ==
    [i \in 0..3 |-> IF i < 3 THEN PrevFile(EmptyFile, <<OldSample>>)
                    ELSE PrevFile(EmptyFile, <<SeriesRecord(LsetA)>>)]

flushedBelow(w, k) ==
    [w EXCEPT !.segments = [i \in DOMAIN w.segments |->
        IF i < k THEN [w.segments[i] EXCEPT !.state = SegmentFlushed] ELSE w.segments[i]]]

InitClean ==
    /\ InitRun(MaxCleanOps)
    /\ InitHead
    /\ \E k \in 0..3 : InitWAL(CleanDir, flushedBelow(New(CleanDir), k))

NextClean ==
    \E t \in Threads :
        \/ CallClean(t)
        \/ CallCheckpoint(t)
        \/ CallLogSample(t)
        \/ WalLock(t)
        \/ WriteBody(t)
        \/ CleanBody(t)

SpecClean == InitClean /\ [][NextClean]_vars

\* ------------------------------------------------------------- claims
AllIdle == \A t \in Threads : Idle(t)

\* The samples the chunk of series r holds.
ChunkSamples(r) == series[r].chunk.samples

\* The records of a file in the order their headers were written.
RECURSIVE HeaderRecords(_)
HeaderRecords(ws) ==
    IF ws = << >> THEN << >>
    ELSE (IF Head(ws).part = "header" THEN <<Head(ws).rec>> ELSE << >>)
         \o HeaderRecords(Tail(ws))

RECURSIVE RecordsFrom(_)
\* The records of the files with the IDs ids, in that order.
RecordsFrom(ids) ==
    IF ids = << >> THEN << >>
    ELSE HeaderRecords(files[Head(ids)].writes) \o RecordsFrom(Tail(ids))

\* The records the WAL directory holds, in segment order.
WalRecords == RecordsFrom(SortInts(DOMAIN files))

\* The payload of rec was written to some segment file.
OnDisk(rec) ==
    \E id \in DOMAIN files : \E k \in 1..Len(files[id].writes) :
        files[id].writes[k].rec = rec /\ files[id].writes[k].part = "payload"

\* C1: every sample in a series' chunk has a sample record with the same
\* label set, timestamp and value whose write (header, payload and sync)
\* had returned nil before the sample was added: whenever a chunk holds a
\* sample, such a write has completed and its payload is in a segment file.
C1_DurabilityOrdering ==
    \A r \in DOMAIN series : \A i \in 1..Len(ChunkSamples(r)) :
        LET rec == SampleRecord(series[r].lset, ChunkSamples(r)[i])
        IN rec \in synced /\ OnDisk(rec)

\* Two Appends that ran at the same time have both put their sample in
\* memory.
C1_Witness ==
    /\ overlap
    /\ Len(accepted) = 2
    /\ \E r \in DOMAIN series : Len(ChunkSamples(r)) >= 1

\* C2: a Checkpoint call that has taken the WAL mutex (so no other
\* operation held it) returns to its caller, and a goroutine waiting for
\* the WAL mutex in write, Clean or Close gets it.
C2_CheckpointReturns ==
    /\ \A t \in Threads : (pc[t] = "CheckpointWrite") ~> Idle(t)
    /\ \A t \in Threads : (pc[t] \in LockWaits) ~> (pc[t] \notin LockWaits)

\* C3: when LogSeries fails while getOrCreate creates a series, the series
\* is not in the head's map once the call has returned the error: Series(ref)
\* does not return it and no later scan finds it.
C3_FailedCreateRolledBack ==
    \A ref \in failedCreate :
        /\ SeriesLookup(ref) = NilSeries
        /\ \A l \in LabelSets : ref \notin Matching(l)

\* Three Appends of samples t=1,2,3 for label set l returned nil one after
\* the other, on a WAL and head that started empty, and nothing else ran.
ThreeAppends(l) ==
    /\ startDir = << >>
    /\ AllIdle
    /\ ~overlap
    /\ faults = 0
    /\ ops = MaxSeqOps - 3
    /\ accepted = <<[lset |-> l, sample |-> [t |-> 1, v |-> 10]],
                    [lset |-> l, sample |-> [t |-> 2, v |-> 20]],
                    [lset |-> l, sample |-> [t |-> 3, v |-> 30]]>>

\* C4: after three sequential Appends t=1,2,3 for one label set on an
\* empty WAL and head, the WAL holds one series-definition record followed
\* by the three sample records.
C4_SeriesRecordFirst ==
    \A l \in LabelSets :
        ThreeAppends(l) =>
            WalRecords = <<SeriesRecord(l),
                           SampleRecord(l, [t |-> 1, v |-> 10]),
                           SampleRecord(l, [t |-> 2, v |-> 20]),
                           SampleRecord(l, [t |-> 3, v |-> 30])>>

RECURSIVE SamplesFor(_, _)
\* The samples of the accepted Appends acc whose label set equals lset,
\* in the order the Appends returned.
SamplesFor(acc, lset) ==
    IF acc = << >> THEN << >>
    ELSE (IF LabelsEqual(Head(acc).lset, lset) THEN <<Head(acc).sample>> ELSE << >>)
         \o SamplesFor(Tail(acc), lset)

\* C8: once ChunkSize + 1 samples were appended to a series, the series
\* has two chunks: the first holds the first ChunkSize samples, with maxTime
\* the timestamp of the last of them, and is still available from the
\* series; the second holds the one last sample, with minTime = maxTime =
\* its timestamp.
C8_ChunkRotation ==
    \A r \in DOMAIN series :
        LET app == SamplesFor(accepted, series[r].lset)
            cs == SeriesChunks(r)
        IN (AllIdle /\ Len(app) = ChunkSize + 1) =>
            /\ Len(cs) = 2
            /\ cs[1].samples = SubSeq(app, 1, ChunkSize)
            /\ cs[1].maxTime = app[ChunkSize].t
            /\ cs[2].samples = <<app[ChunkSize + 1]>>
            /\ cs[2].minTime = app[ChunkSize + 1].t
            /\ cs[2].maxTime = app[ChunkSize + 1].t

\* The timestamps of the accepted samples.
AcceptedTimes == {accepted[i].sample.t : i \in 1..Len(accepted)}

\* C9: once all Appends have returned, the head's minTime is the smallest
\* and its maxTime the largest timestamp of the accepted samples, and with
\* none accepted they are MaxInt64 and MinInt64.
C9_HeadBoundsExact ==
    AllIdle =>
        IF accepted = << >>
        THEN minTime = MaxInt64 /\ maxTime = MinInt64
        ELSE /\ minTime \in AcceptedTimes /\ \A x \in AcceptedTimes : minTime <= x
             /\ maxTime \in AcceptedTimes /\ \A x \in AcceptedTimes : maxTime >= x

\* The (name, value) pairs of a label set.
Pairs(lset) == {lset[i] : i \in 1..Len(lset)}

\* C10: label sets with the same pairs are one series: no two series of
\* the head hold the same pairs.
C10_LabelOrderInsensitive ==
    \A r1, r2 \in DOMAIN series :
        Pairs(series[r1].lset) = Pairs(series[r2].lset) => r1 = r2

\* The IDs of the table's segments in state st.
InState(segs, st) == {i \in DOMAIN segs : segs[i].state = st}

\* The largest element of a non-empty set of IDs.
MaxId(S) == CHOOSE x \in S : \A y \in S : y <= x

\* A step that is a Clean call running from its Lock to its return.
CleanStep == \E t \in Threads : pc[t] = "CleanBody" /\ pc'[t] = "idle"

\* C5: Clean never removes the flushed segment with the highest ID from
\* disk or from the segment table, so a Clean that starts with a flushed
\* segment leaves one; and no step deletes the active segment or a sealed
\* one.
C5_Retention ==
    [][/\ (CleanStep /\ InState(segments, SegmentFlushed) # {}) =>
            LET keep == MaxId(InState(segments, SegmentFlushed))
            IN /\ keep \in DOMAIN segments'
               /\ keep \in DOMAIN files'
               /\ segments'[keep].state = SegmentFlushed
       /\ \A id \in InState(segments, SegmentActive) \cup InState(segments, SegmentSealed) :
            /\ id \in DOMAIN segments'
            /\ id \in DOMAIN files'
      ]_vars

\* A Clean has deleted flushed segments (segment 0 among them) and has
\* kept a flushed one, beside sealed and active segments.
C5_Witness ==
    /\ lastOp \in {"clean_ok", "clean_err"}
    /\ 0 \notin DOMAIN files
    /\ 0 \notin DOMAIN segments
    /\ InState(segments, SegmentFlushed) # {}
    /\ InState(segments, SegmentSealed) # {}

\* C6: a Clean that runs right after a successful Clean deletes no file
\* and leaves the segment table, every segment's state and the current
\* segment as they are.
C6_CleanIdempotent ==
    [][(CleanStep /\ lastOp \in {"clean_ok", "clean_ok_again"}) =>
            /\ files' = files
            /\ segments' = segments
            /\ current' = current
      ]_vars

\* Two Cleans have run in a row, the first of which deleted segments 0
\* and 1 of the checkpointed table.
C6_Witness ==
    /\ lastOp = "clean_ok_again"
    /\ 0 \notin DOMAIN files
    /\ 1 \notin DOMAIN files
    /\ InState(segments, SegmentFlushed) # {}

\* Exactly one segment of the table is active: the current one, which has
\* the highest ID.
OneActive ==
    /\ current \in DOMAIN segments
    /\ InState(segments, SegmentActive) = {current}
    /\ \A id \in DOMAIN segments : id <= current

\* C7: after New and after any calls, exactly one segment is active, it is
\* the current one and has the highest ID of the table; and a segment that
\* is sealed or flushed is never active again.
C7_SingleActive ==
    /\ []OneActive
    /\ [][\A id \in DOMAIN segments \cap DOMAIN segments' :
            segments[id].state # SegmentActive => segments'[id].state # SegmentActive
         ]_vars

\* A write has rotated: the table holds a segment New did not load or
\* create, and the segment that was active before is sealed.
C7_Witness ==
    /\ \E id \in DOMAIN segments : id > 0 /\ id \notin DOMAIN startDir
    /\ InState(segments, SegmentSealed) # {}
    /\ lastOp = "write"

\* The goroutines that are in Append past getOrCreate.
PastGetOrCreate == {t \in Threads : pc[t] \in {"SeriesLock", "MinWrite", "MaxRead", "MaxWrite"}}

\* C11: in every state each label set has at most one series in the map,
\* every series is stored under its own reference, and the references in
\* use are 1..lastRef; in every step the references already given stay with
\* their series and a new one is larger than all given before.
C11_RefsUnique ==
    /\ [](/\ \A r1, r2 \in DOMAIN series : series[r1].lset = series[r2].lset => r1 = r2
          /\ \A r \in DOMAIN series : series[r].ref = r
          /\ DOMAIN series = 1..lastRef)
    /\ [][/\ lastRef' >= lastRef
          /\ \A r \in DOMAIN series :
                r \in DOMAIN series' /\ series'[r].lset = series[r].lset
          /\ \A r \in DOMAIN series' \ DOMAIN series : r = lastRef + 1 /\ lastRef' = r
         ]_vars

\* Two goroutines made the first two Appends of the run at the same time,
\* for the same label set; both are past getOrCreate with the same series,
\* the only one created.
C11_Witness ==
    /\ PastGetOrCreate = Threads
    /\ arg[1].lset = arg[2].lset
    /\ accepted = << >>
    /\ sref[1] = sref[2]
    /\ DOMAIN series = {1}

\* The step in which the write of goroutine t's LogSample, called from
\* Append, returns an error: an IO call failed, or the file was closed.
LogSampleFailed(t) ==
    /\ pc[t] = "LogSampleWrite"
    /\ pc'[t] # "LogSampleWrite"
    /\ \/ faults' # faults
       \/ segments[current].offset < SegmentSize /\ ~segments[current].open

\* C12: from the call of Append up to the return of its LogSample, the
\* goroutine's steps leave the series map, lastRef, minTime, maxTime and
\* every chunk as they are; and when the write of the sample record fails,
\* Append returns in that step, its sample not accepted.
C12_FailedLogSampleNoMemory ==
    [][\A t \in Threads :
        /\ (pc[t] \in {"idle", "LogSample", "LogSampleWrite"} /\ pc'[t] # pc[t]
                /\ (pc[t] = "idle" => pc'[t] = "LogSample"))
            => UNCHANGED <<series, lastRef, minTime, maxTime>>
        /\ LogSampleFailed(t) => pc'[t] = "idle" /\ accepted' = accepted
      ]_vars

\* One Append has put its sample in memory; the run's other call was an
\* Append whose sample record met the IO failure, and it left no trace in
\* memory.
C12_Witness ==
    /\ AllIdle
    /\ ops = 0
    /\ faults = 1
    /\ failedCreate = {}
    /\ lastOp = "write"
    /\ Len(accepted) = 1
    /\ DOMAIN series = {1}
    /\ ChunkSamples(1) = <<accepted[1].sample>>
    /\ minTime = accepted[1].sample.t
    /\ maxTime = accepted[1].sample.t

\* Where a goroutine is inside LogSeries: waiting for the WAL mutex in
\* write, or writing and syncing with it.
InLogSeries == {"LogSeries", "LogSeriesWrite"}

\* C13: no goroutine holds the head's lock h.mtx while it waits for the WAL
\* mutex or is inside the write of a record.
C13_HeadLockNotAcrossIO ==
    \A t \in Threads : hmtx = t => pc[t] \notin InLogSeries

\* A step that is a write call running from its Lock to its return.
WriteStep == \E t \in Threads : wmtx = t /\ wmtx' = NoThread /\ lastOp' = "write"

\* The bytes of the last record whose header was written to file f: its
\* 13-byte header plus its payload.
LastRecordLen(f) ==
    LET hs == {k \in 1..Len(f.writes) : f.writes[k].part = "header"}
    IN IF hs = {} THEN 0 ELSE HeaderLen + PayloadLen(f.writes[MaxId(hs)].rec)

\* The segments sealed by a rotation of this run: all sealed ones but those
\* loadSegments found below the highest ID.
SealedByRotation ==
    {id \in InState(segments, SegmentSealed) :
        id \notin DOMAIN startDir \/ \A j \in DOMAIN startDir : j <= id}

\* C14: a write rotates exactly when the active segment's offset is
\* already >= SegmentSize before it writes (unless opening the new file
\* fails), and at most once; the new segment has the next ID and counts
\* from 0, so it holds only what this write wrote; and a segment sealed by
\* rotation ends with SegmentSize <= offset < SegmentSize + the size of
\* the last record written to it.
C14_RotationBoundary ==
    /\ [][WriteStep =>
            LET full == segments[current].offset >= SegmentSize
            IN /\ current' # current => full /\ current' = current + 1
               /\ (full /\ faults' = faults) => current' = current + 1
               /\ current' # current =>
                    /\ segments'[current'].offset <= LastRecordLen(files'[current'])
                    /\ (faults' = faults =>
                            segments'[current'].offset = LastRecordLen(files'[current']))
                    /\ segments'[current].offset = segments[current].offset
         ]_vars
    /\ [](\A id \in SealedByRotation :
            /\ segments[id].offset >= SegmentSize
            /\ segments[id].offset < SegmentSize + LastRecordLen(files[id]))

\* Rotations have sealed a segment this run created and the segment New
\* found or created, each grown past SegmentSize by its last record.
C14_Witness ==
    /\ Cardinality(SealedByRotation) >= 2
    /\ \E id \in SealedByRotation : segments[id].offset > SegmentSize
    /\ \E id \in SealedByRotation : id \notin DOMAIN startDir /\ id > 0
    /\ lastOp = "write"

\* A step in which Clean returns the error of a failed deletion.
CleanFails == CleanStep /\ lastOp' = "clean_err"

MarkerOnDisk ==
    \E id \in DOMAIN files : \E k \in 1..Len(files[id].writes) :
        files[id].writes[k].rec = CheckpointRecord /\ files[id].writes[k].part = "header"

\* Checkpoint's result: the marker is in the log, every segment below the
\* current one is flushed and the current one is active.
Reclassified ==
    /\ MarkerOnDisk
    /\ lastCheckpoint > 0
    /\ \A id \in DOMAIN segments :
          IF id < current THEN segments[id].state = SegmentFlushed
          ELSE segments[id].state = SegmentActive

\* C16: a Checkpoint call that holds the WAL mutex comes to its result:
\* the marker appended and synced and with it exactly the segments below
\* the active one flushed, or, the append having failed, the error returned
\* with no marker in the log and no segment flushed by it.
C16_CheckpointReclassifies ==
    \A t \in Threads :
        (pc[t] = "CheckpointWrite") ~>
            (Reclassified \/ (Idle(t) /\ ~MarkerOnDisk /\ lastCheckpoint = 0))

\* Write k of file f lands on bytes an earlier write of f put there.
Overwrites(f, k) ==
    \E j \in 1..(k - 1) :
        /\ f.writes[k].at < f.writes[j].at + f.writes[j].len
        /\ f.writes[j].at < f.writes[k].at + f.writes[k].len

\* C17: every write to a segment file lands after what the file already
\* holds, the content an earlier run left included: no write overlaps the
\* bytes of an earlier one.
C17_AppendOnlyAcrossReopen ==
    \A id \in DOMAIN files : \A k \in 1..Len(files[id].writes) :
        ~Overwrites(files[id], k)

\* The timestamps of the samples of chunk c.
ChunkTimes(c) == {c.samples[i].t : i \in 1..Len(c.samples)}

\* C18: every chunk that holds a sample has as minTime the smallest and as
\* maxTime the largest timestamp of its samples.
C18_ChunkSpan ==
    \A r \in DOMAIN series : \A k \in 1..Len(SeriesChunks(r)) :
        LET c == SeriesChunks(r)[k]
        IN c.samples # << >> =>
            /\ c.minTime \in ChunkTimes(c) /\ \A x \in ChunkTimes(c) : c.minTime <= x
            /\ c.maxTime \in ChunkTimes(c) /\ \A x \in ChunkTimes(c) : c.maxTime >= x

\* Where a goroutine is between the Lock of write and its Unlock: writing
\* the header and the payload of its record and syncing.
InWrite == {"LogSampleWrite", "WalLogSampleWrite", "LogSeriesWrite", "CheckpointWriteBody"}

\* The headers in the writes ws that are not directly followed, in the same
\* file and at the next byte, by the payload of their own record.
BareHeaders(ws) ==
    {k \in 1..Len(ws) :
        /\ ws[k].part = "header"
        /\ ~(/\ k < Len(ws)
             /\ ws[k + 1].part = "payload"
             /\ ws[k + 1].rec = ws[k].rec
             /\ ws[k + 1].at = ws[k].at + HeaderLen)}

\* The headers without their payload in the files of the IDs ids.
RECURSIVE BareCount(_)
BareCount(ids) ==
    IF ids = << >> THEN 0
    ELSE Cardinality(BareHeaders(files[Head(ids)].writes)) + BareCount(Tail(ids))

\* C19: at most one goroutine is inside a write, the one holding the WAL
\* mutex; every header in a segment file is directly followed by its own
\* payload in that file, but for a write an IO failure cut short; and a
\* step writes to no file but that of the one active segment.
C19_RecordsNotInterleaved ==
    /\ [](/\ \A t \in Threads : pc[t] \in InWrite => wmtx = t
          /\ Cardinality({t \in Threads : pc[t] \in InWrite}) <= 1
          /\ BareCount(SortInts(DOMAIN files)) <= faults)
    /\ [][\A id \in DOMAIN files' :
            (id \notin DOMAIN files \/ files'[id] # files[id]) =>
                /\ id = current'
                /\ InState(segments', SegmentActive) = {id}
         ]_vars

\* Two goroutines were in Append at the same time, no IO call failed, and
\* the log holds the records of both: two sample records in one run.
C19_Witness ==
    /\ overlap
    /\ faults = 0
    /\ Len(accepted) = 2
    /\ Cardinality({k \in 1..Len(WalRecords) : WalRecords[k].typ = RecordSamples}) >= 2
       + Cardinality({id \in DOMAIN startDir : id = 1})

\* The positions of record rec in the log.
LogPositions(rec) == {p \in 1..Len(WalRecords) : WalRecords[p] = rec}

\* C20: two different samples of one series that are in its chunk were put
\* there in the order of their sample records in the log: the record of
\* the earlier one comes before the record of the later one.
C20_LogOrderIsMemoryOrder ==
    \A r \in DOMAIN series :
        \A i, j \in 1..Len(ChunkSamples(r)) :
            (i < j /\ ChunkSamples(r)[i] # ChunkSamples(r)[j]) =>
                \E p \in LogPositions(SampleRecord(series[r].lset, ChunkSamples(r)[i])),
                   q \in LogPositions(SampleRecord(series[r].lset, ChunkSamples(r)[j])) :
                    p < q

=============================================================================
